---------------------------- MODULE Spec2Model ----------------------------
(***************************************************************************)
(* dragonfly2imgproxy: a middleware that takes a Dragonfly style request   *)
(* (/media/<base64url job list>[.<ext>]?sha=<signature>), verifies the     *)
(* signature of the job list and rewrites the request into an imgproxy     *)
(* path before it calls the next handler.                                  *)
(*                                                                         *)
(* Go strings are TLA+ strings; a byte slice is a sequence of 0..255.      *)
(* The model's alphabet is printable ASCII.                                *)
(***************************************************************************)
EXTENDS Integers, Sequences, FiniteSets, TLC

(***************************************************************************)
(* Strings                                                                 *)
(***************************************************************************)

\* s[i-1] of Go, as a one character string; empty beyond the ends of s
Char(s, i) == IF 1 <= i /\ i <= Len(s) THEN SubSeq(s, i, i) ELSE ""

\* s[i-1:] of Go; empty beyond the end of s
From(s, i) == IF i <= Len(s) THEN SubSeq(s, i, Len(s)) ELSE ""

HasPrefix(s, p) == Len(p) <= Len(s) /\ SubSeq(s, 1, Len(p)) = p

HasSuffix(s, p) == Len(p) <= Len(s) /\ SubSeq(s, Len(s) - Len(p) + 1, Len(s)) = p

\* strings.Index, 1-based; 0 when sub does not occur
Index(s, sub) ==
    LET hits == {i \in 1..(Len(s) - Len(sub) + 1) : SubSeq(s, i, i + Len(sub) - 1) = sub}
    IN  IF hits = {} THEN 0 ELSE CHOOSE i \in hits : \A j \in hits : i <= j

\* strings.LastIndex, 1-based; 0 when sub does not occur
LastIndex(s, sub) ==
    LET hits == {i \in 1..(Len(s) - Len(sub) + 1) : SubSeq(s, i, i + Len(sub) - 1) = sub}
    IN  IF hits = {} THEN 0 ELSE CHOOSE i \in hits : \A j \in hits : i >= j

RECURSIVE ReplaceAll(_, _, _)
\* strings.ReplaceAll for a one character `old`
ReplaceAll(s, old, new) ==
    IF s = "" THEN ""
    ELSE IF HasPrefix(s, old) THEN new \o ReplaceAll(From(s, Len(old) + 1), old, new)
    ELSE Char(s, 1) \o ReplaceAll(From(s, 2), old, new)

RECURSIVE Concat(_)
\* the strings of a sequence, joined
Concat(ss) == IF ss = <<>> THEN "" ELSE Head(ss) \o Concat(Tail(ss))

\* the printable ASCII characters of codes 32..95 and 97..126 (a TLA+ string
\* cannot hold the backquote, code 96, which the model's alphabet leaves out)
AsciiLow == " !\"#$%&'()*+,-./0123456789:;<=>?@ABCDEFGHIJKLMNOPQRSTUVWXYZ[\\]^_"

AsciiHigh == "abcdefghijklmnopqrstuvwxyz{|}~"

\* the bytes of the characters of the alphabet
AsciiCode ==
    [c \in {Char(AsciiLow, i) : i \in 1..Len(AsciiLow)}
           \cup {Char(AsciiHigh, i) : i \in 1..Len(AsciiHigh)} |->
        IF Index(AsciiLow, c) > 0 THEN 31 + Index(AsciiLow, c) ELSE 96 + Index(AsciiHigh, c)]

\* the byte of a character of the alphabet
Code(c) == AsciiCode[c]

\* the character of a byte; a byte outside the alphabet shows as "?"
Chr(n) ==
    IF n >= 32 /\ n <= 95 THEN Char(AsciiLow, n - 31)
    ELSE IF n >= 97 /\ n <= 126 THEN Char(AsciiHigh, n - 96)
    ELSE "?"

RECURSIVE Bytes(_)
\* []byte(s)
Bytes(s) == IF s = "" THEN <<>> ELSE <<Code(Char(s, 1))>> \o Bytes(From(s, 2))

Digits == "0123456789"

IsDigit(c) == Len(c) = 1 /\ Index(Digits, c) > 0

UpperHex == "0123456789ABCDEF"

(***************************************************************************)
(* The two precompiled patterns                                            *)
(***************************************************************************)

\* the alternatives of the second group of urlRegex: only the dot of \.gif is
\* escaped, the dot of the six others matches any character
urlRegexExt(s) ==
    \/ s = ".gif"
    \/ Len(s) = 4 /\ From(s, 2) \in {"png", "jpg", "svg"}
    \/ Len(s) = 5 /\ From(s, 2) \in {"jpeg", "webp", "avif"}

RECURSIVE urlRegexTail(_)
\* s matches (\.gif|.png|.jpeg|.jpg|.webp|.avif|.svg)*$
urlRegexTail(s) ==
    \/ s = ""
    \/ \E n \in {4, 5} :
          /\ n <= Len(s)
          /\ urlRegexExt(SubSeq(s, 1, n))
          /\ urlRegexTail(From(s, n + 1))

\* urlRegex.FindStringSubmatch(path): the leftmost match of
\* \/media\/(.+?)(\.gif|.png|.jpeg|.jpg|.webp|.avif|.svg)*$ ; the lazy first
\* group is the shortest text after which the rest of the path is a run of
\* suffixes. A match has 3 elements; match[2], which the handler never reads,
\* is left empty. No match is the empty sequence.
urlRegex(path) ==
    LET at   == Index(path, "/media/")
        rest == From(path, at + 7)
        lens == {n \in 1..Len(rest) : urlRegexTail(From(rest, n + 1))}
        n1   == CHOOSE n \in lens : \A m \in lens : n <= m
    IN  IF at = 0 \/ rest = "" THEN <<>>
        ELSE <<From(path, at), SubSeq(rest, 1, n1), "">>

\* the length of the longest run of digits s starts with
RECURSIVE DigitRun(_)
DigitRun(s) == IF s # "" /\ IsDigit(Char(s, 1)) THEN 1 + DigitRun(From(s, 2)) ELSE 0

\* thumbRegex.FindStringSubmatch(spec) for ^(\d+)x(|\d+)(|>|#)$ : the match
\* <<whole, width, height, operation>>, or the empty sequence
thumbRegex(spec) ==
    LET w    == DigitRun(spec)
        r1   == From(spec, w + 2)
        h    == DigitRun(r1)
        r2   == From(r1, h + 1)
    IN  IF w >= 1 /\ Char(spec, w + 1) = "x" /\ r2 \in {"", ">", "#"}
        THEN <<spec, SubSeq(spec, 1, w), SubSeq(r1, 1, h), r2>>
        ELSE <<>>

(***************************************************************************)
(* File name escaping and path joining                                     *)
(***************************************************************************)

\* the characters url.QueryEscape leaves as they are
Unreserved == "ABCDEFGHIJKLMNOPQRSTUVWXYZabcdefghijklmnopqrstuvwxyz0123456789-_.~"

\* %XX of a byte
PercentHex(n) == "%" \o Char(UpperHex, (n \div 16) + 1) \o Char(UpperHex, (n % 16) + 1)

RECURSIVE QueryEscape(_)
\* url.QueryEscape
QueryEscape(s) ==
    IF s = "" THEN ""
    ELSE LET c == Char(s, 1)
         IN  (IF Index(Unreserved, c) > 0 THEN c
              ELSE IF c = " " THEN "+"
              ELSE PercentHex(Code(c))) \o QueryEscape(From(s, 2))

customEscape(s) == ReplaceAll(QueryEscape(s), "+", "%20")

\* filepath.Split: the directory with its final slash, and the file name
Split(path) ==
    LET i == LastIndex(path, "/")
    IN  <<SubSeq(path, 1, i), From(path, i + 1)>>

RECURSIVE Fields(_)
\* strings.Split(s, "/")
Fields(s) ==
    LET i == Index(s, "/")
    IN  IF i = 0 THEN <<s>> ELSE <<SubSeq(s, 1, i - 1)>> \o Fields(From(s, i + 1))

RECURSIVE CleanFields(_, _, _)
\* the elements filepath.Clean keeps: no empty element, no ".", and ".."
\* takes back the element before it (at the root it is dropped, at the start
\* of a relative path it stays)
CleanFields(fs, out, rooted) ==
    IF fs = <<>> THEN out
    ELSE LET f == Head(fs)
         IN  IF f = "" \/ f = "." THEN CleanFields(Tail(fs), out, rooted)
             ELSE IF f = ".."
                  THEN IF out # <<>> /\ out[Len(out)] # ".."
                       THEN CleanFields(Tail(fs), SubSeq(out, 1, Len(out) - 1), rooted)
                       ELSE IF rooted THEN CleanFields(Tail(fs), out, rooted)
                       ELSE CleanFields(Tail(fs), Append(out, ".."), rooted)
             ELSE CleanFields(Tail(fs), Append(out, f), rooted)

RECURSIVE JoinFields(_)
\* strings.Join(fs, "/")
JoinFields(fs) ==
    IF fs = <<>> THEN ""
    ELSE IF Len(fs) = 1 THEN fs[1]
    ELSE fs[1] \o "/" \o JoinFields(Tail(fs))

\* filepath.Clean
Clean(path) ==
    LET rooted == HasPrefix(path, "/")
        body   == JoinFields(CleanFields(Fields(path), <<>>, rooted))
        out    == (IF rooted THEN "/" ELSE "") \o body
    IN  IF out = "" THEN "." ELSE out

\* filepath.Join(dir, file): empty elements are ignored, the rest is joined
\* with a slash and cleaned
Join(dir, file) ==
    IF dir = "" /\ file = "" THEN ""
    ELSE IF dir = "" THEN Clean(file)
    ELSE Clean(dir \o "/" \o file)

(***************************************************************************)
(* base64.RawURLEncoding                                                   *)
(***************************************************************************)

\* the URL alphabet of base64, value 0 first
encodeURL == "ABCDEFGHIJKLMNOPQRSTUVWXYZabcdefghijklmnopqrstuvwxyz0123456789-_"

\* the decode map of the encoding: the 6 bit value of every character of the
\* alphabet
decodeMap == [c \in {Char(encodeURL, i) : i \in 1..Len(encodeURL)} |-> Index(encodeURL, c) - 1]

\* the 6 bit value of a character, -1 for a character outside the alphabet
B64Value(c) == IF c \in DOMAIN decodeMap THEN decodeMap[c] ELSE -1

RECURSIVE B64Values(_)
\* the 6 bit values of the characters of s
B64Values(s) == IF s = "" THEN <<>> ELSE <<B64Value(Char(s, 1))>> \o B64Values(From(s, 2))

RECURSIVE B64Bytes(_)
\* the bytes of a run of 6 bit values: 3 bytes of every 4 values, 1 byte of
\* 2 final values, 2 bytes of 3 final values (left over bits are dropped)
B64Bytes(v) ==
    IF Len(v) >= 4
    THEN LET n == ((v[1] * 64 + v[2]) * 64 + v[3]) * 64 + v[4]
         IN  <<n \div 65536, (n \div 256) % 256, n % 256>> \o B64Bytes(SubSeq(v, 5, Len(v)))
    ELSE IF Len(v) = 3
    THEN LET n == (v[1] * 64 + v[2]) * 64 + v[3]
         IN  <<n \div 1024, (n \div 4) % 256>>
    ELSE IF Len(v) = 2 THEN <<(v[1] * 64 + v[2]) \div 16>>
    ELSE <<>>

\* base64.RawURLEncoding.DecodeString(s): an error for a character outside
\* the alphabet (the padding character is one) and for a single left over
\* character
DecodeString(s) ==
    LET v == B64Values(s)
    IN  IF (\E i \in 1..Len(v) : v[i] < 0) \/ Len(v) % 4 = 1
        THEN [err |-> TRUE, bytes |-> <<>>]
        ELSE [err |-> FALSE, bytes |-> B64Bytes(v)]

RECURSIVE B64Chars(_)
\* base64.RawURLEncoding.EncodeToString(b), no padding
B64Chars(b) ==
    LET ch(n) == Char(encodeURL, n + 1)
    IN  IF Len(b) >= 3
        THEN LET n == (b[1] * 256 + b[2]) * 256 + b[3]
             IN  ch(n \div 262144) \o ch((n \div 4096) % 64) \o ch((n \div 64) % 64)
                    \o ch(n % 64) \o B64Chars(SubSeq(b, 4, Len(b)))
        ELSE IF Len(b) = 2
        THEN LET n == (b[1] * 256 + b[2]) * 4
             IN  ch(n \div 4096) \o ch((n \div 64) % 64) \o ch(n % 64)
        ELSE IF Len(b) = 1
        THEN ch(b[1] \div 4) \o ch((b[1] % 4) * 16)
        ELSE ""

EncodeToString(b) == B64Chars(b)

RECURSIVE String(_)
\* string(b)
String(b) == IF b = <<>> THEN "" ELSE Chr(Head(b)) \o String(Tail(b))

(***************************************************************************)
(* encoding/json, as far as a value of type [][]string needs it            *)
(***************************************************************************)

\* b[i], or -1 beyond the end
At(b, i) == IF 1 <= i /\ i <= Len(b) THEN b[i] ELSE -1

\* the bytes of s are in b from position i on
Has(b, i, s) == LET t == Bytes(s) IN i + Len(t) - 1 <= Len(b) /\ SubSeq(b, i, i + Len(t) - 1) = t

RECURSIVE SkipSpace(_, _)
\* the first position from i on that holds no space, tab, line feed or return
SkipSpace(b, i) == IF At(b, i) \in {32, 9, 10, 13} THEN SkipSpace(b, i + 1) ELSE i

RECURSIVE SkipDigits(_, _)
SkipDigits(b, i) == IF At(b, i) \in 48..57 THEN SkipDigits(b, i + 1) ELSE i

\* the value of a hexadecimal digit, -1 for any other byte
HexValue(n) ==
    IF n \in 48..57 THEN n - 48
    ELSE IF n \in 65..70 THEN n - 55
    ELSE IF n \in 97..102 THEN n - 87
    ELSE -1

\* a parse that failed, and a parse that read a value and stops before `next`
Failed == [ok |-> FALSE, next |-> 0, kind |-> "", str |-> "", elems |-> <<>>]

Parsed(next, kind, str, elems) ==
    [ok |-> TRUE, next |-> next, kind |-> kind, str |-> str, elems |-> elems]

\* a number from position i on: -? (0 | [1-9][0-9]*) (\.[0-9]+)? ([eE][+-]?[0-9]+)?
ParseNumber(b, i) ==
    LET i1 == IF At(b, i) = 45 THEN i + 1 ELSE i
        i2 == IF At(b, i1) = 48 THEN i1 + 1 ELSE SkipDigits(b, i1)
        i3 == IF At(b, i2) = 46 THEN SkipDigits(b, i2 + 1) ELSE i2
        e1 == IF At(b, i3 + 1) \in {43, 45} THEN i3 + 2 ELSE i3 + 1
        i4 == IF At(b, i3) \in {69, 101} THEN SkipDigits(b, e1) ELSE i3
    IN  IF i2 = i1 \/ (At(b, i2) = 46 /\ i3 = i2 + 1) \/ (At(b, i3) \in {69, 101} /\ i4 = e1)
        THEN Failed
        ELSE Parsed(i4, "number", "", <<>>)

RECURSIVE ParseChars(_, _, _)
\* the rest of a string literal from position i on, after the characters acc:
\* up to the closing quote, with the escapes replaced; a control character
\* and an unknown escape are errors
ParseChars(b, i, acc) ==
    LET c == At(b, i)
        e == At(b, i + 1)
        h == [k \in 1..4 |-> HexValue(At(b, i + 1 + k))]
    IN  IF c < 32 THEN Failed
        ELSE IF c = 34 THEN Parsed(i + 1, "string", acc, <<>>)
        ELSE IF c # 92 THEN ParseChars(b, i + 1, acc \o Chr(c))
        ELSE IF e \in {34, 92, 47} THEN ParseChars(b, i + 2, acc \o Chr(e))
        ELSE IF e \in {98, 102, 110, 114, 116} THEN ParseChars(b, i + 2, acc \o Chr(0))
        ELSE IF e = 117 /\ \A k \in 1..4 : h[k] >= 0
             THEN ParseChars(b, i + 6, acc \o Chr(((h[1] * 16 + h[2]) * 16 + h[3]) * 16 + h[4]))
        ELSE Failed

RECURSIVE ParseValue(_, _)
RECURSIVE ParseElements(_, _, _)
RECURSIVE ParseMembers(_, _)

\* the JSON value that starts at position i
ParseValue(b, i) ==
    LET c == At(b, i)
    IN  IF c = 34 THEN ParseChars(b, i + 1, "")
        ELSE IF c = 91
             THEN IF At(b, SkipSpace(b, i + 1)) = 93
                  THEN Parsed(SkipSpace(b, i + 1) + 1, "array", "", <<>>)
                  ELSE ParseElements(b, SkipSpace(b, i + 1), <<>>)
        ELSE IF c = 123
             THEN IF At(b, SkipSpace(b, i + 1)) = 125
                  THEN Parsed(SkipSpace(b, i + 1) + 1, "object", "", <<>>)
                  ELSE ParseMembers(b, SkipSpace(b, i + 1))
        ELSE IF Has(b, i, "null") THEN Parsed(i + 4, "null", "", <<>>)
        ELSE IF Has(b, i, "true") THEN Parsed(i + 4, "bool", "", <<>>)
        ELSE IF Has(b, i, "false") THEN Parsed(i + 5, "bool", "", <<>>)
        ELSE IF c = 45 \/ c \in 48..57 THEN ParseNumber(b, i)
        ELSE Failed

\* the elements of an array from position i on, after the elements acc
ParseElements(b, i, acc) ==
    LET v == ParseValue(b, i)
        j == SkipSpace(b, v.next)
        e == [kind |-> v.kind, str |-> v.str, elems |-> v.elems]
    IN  IF ~v.ok THEN Failed
        ELSE IF At(b, j) = 93 THEN Parsed(j + 1, "array", "", Append(acc, e))
        ELSE IF At(b, j) = 44 THEN ParseElements(b, SkipSpace(b, j + 1), Append(acc, e))
        ELSE Failed

\* the members of an object from position i on
ParseMembers(b, i) ==
    LET k  == IF At(b, i) = 34 THEN ParseChars(b, i + 1, "") ELSE Failed
        c  == SkipSpace(b, k.next)
        v  == ParseValue(b, SkipSpace(b, c + 1))
        j  == SkipSpace(b, v.next)
    IN  IF ~k.ok \/ At(b, c) # 58 THEN Failed
        ELSE IF ~v.ok THEN Failed
        ELSE IF At(b, j) = 125 THEN Parsed(j + 1, "object", "", <<>>)
        ELSE IF At(b, j) = 44 THEN ParseMembers(b, SkipSpace(b, j + 1))
        ELSE Failed

\* a slice of strings from a JSON value: the strings of an array, with null
\* for an empty string; null for an empty slice; any other value is an error
\* (the empty sequence stands for it, told from a slice by StringsOk)
StringsOk(v) ==
    \/ v.kind = "null"
    \/ v.kind = "array" /\ \A i \in 1..Len(v.elems) : v.elems[i].kind \in {"string", "null"}

Strings(v) == [i \in 1..Len(v.elems) |-> v.elems[i].str]

\* json.Unmarshal(b, &jobs) for jobs of type [][]string: a syntax error when
\* b is not one JSON value, a type error when a value in it is not of the
\* type of its place
Unmarshal(b) ==
    LET v     == ParseValue(b, SkipSpace(b, 1))
        valid == v.ok /\ SkipSpace(b, v.next) = Len(b) + 1
        typed == \/ v.kind = "null"
                 \/ v.kind = "array" /\ \A i \in 1..Len(v.elems) : StringsOk(v.elems[i])
    IN  IF valid /\ typed
        THEN [err |-> FALSE, jobs |-> [i \in 1..Len(v.elems) |-> Strings(v.elems[i])]]
        ELSE [err |-> TRUE, jobs |-> <<>>]

RECURSIVE MarshalChars(_)
\* the characters of a string literal as json.Marshal writes them: the
\* quote and the backslash escaped, and <, > and & as \\u003c, \\u003e and \\u0026
MarshalChars(s) ==
    IF s = "" THEN ""
    ELSE LET c == Char(s, 1)
         IN  (IF c = "\"" THEN "\\\""
              ELSE IF c = "\\" THEN "\\\\"
              ELSE IF c = "<" THEN "\\u003c"
              ELSE IF c = ">" THEN "\\u003e"
              ELSE IF c = "&" THEN "\\u0026"
              ELSE c) \o MarshalChars(From(s, 2))

MarshalString(s) == "\"" \o MarshalChars(s) \o "\""

RECURSIVE MarshalStrings(_)
\* the strings of a job, between commas
MarshalStrings(job) ==
    IF job = <<>> THEN ""
    ELSE IF Len(job) = 1 THEN MarshalString(job[1])
    ELSE MarshalString(job[1]) \o "," \o MarshalStrings(Tail(job))

MarshalJob(job) == "[" \o MarshalStrings(job) \o "]"

RECURSIVE MarshalJobs(_)
\* the jobs of a list, between commas
MarshalJobs(jobs) ==
    IF jobs = <<>> THEN ""
    ELSE IF Len(jobs) = 1 THEN MarshalJob(jobs[1])
    ELSE MarshalJob(jobs[1]) \o "," \o MarshalJobs(Tail(jobs))

\* json.Marshal(jobs) for jobs of type [][]string
Marshal(jobs) == Bytes("[" \o MarshalJobs(jobs) \o "]")

(***************************************************************************)
(* Signature and translation                                               *)
(***************************************************************************)

\* A job is a []string; Go's job[0], job[1], job[2] are job[1], job[2],
\* job[3] here. Reading an element a job does not have panics (index out of
\* range).

\* hex(HMAC-SHA256(secret, message))[:16]. The digest is not computed: the
\* signature of a secret and a message is a term that names both, so that
\* two signatures are equal exactly when their secrets and their messages
\* are (no collisions).
hmacSHA256Hex16(secret, message) == "hmac16(" \o secret \o "," \o message \o ")"

\* one turn of the loop of calculateSHA
shaJob(acc, job) ==
    IF acc.panic THEN acc
    ELSE IF Len(job) < 1 THEN [acc EXCEPT !.panic = TRUE]
    ELSE IF job[1] = "f"
         THEN IF Len(job) < 2 THEN [acc EXCEPT !.panic = TRUE]
              ELSE [acc EXCEPT !.message = @ \o "f" \o job[2]]
    ELSE IF job[1] = "p"
         THEN IF Len(job) < 3 THEN [acc EXCEPT !.panic = TRUE]
              ELSE [acc EXCEPT !.message = @ \o "p" \o job[2] \o job[3]]
    ELSE acc

RECURSIVE shaJobs(_, _)
\* the loop of calculateSHA over jobs
shaJobs(acc, jobs) == IF jobs = <<>> THEN acc ELSE shaJobs(shaJob(acc, Head(jobs)), Tail(jobs))

\* calculateSHA(secret, jobs): the signature, or a panic
calculateSHA(secret, jobs) ==
    LET acc == shaJobs([panic |-> FALSE, message |-> ""], jobs)
    IN  [panic |-> acc.panic,
         sha   |-> IF acc.panic THEN "" ELSE hmacSHA256Hex16(secret, acc.message)]

\* the locals of generate_imgproxy_url before its loop; failed is the early
\* return of "Failed to extract job"
urlStart(url_prefix) ==
    [imgproxy_url |-> url_prefix, thumb_operation |-> "", is_gif |-> FALSE,
     is_svg |-> FALSE, failed |-> FALSE, panic |-> FALSE]

\* the fetch branch of the loop
urlFetch(t, job) ==
    LET filePath        == job[2]
        dir             == Split(filePath)[1]
        fileName        == Split(filePath)[2]
        encodedFileName == customEscape(fileName)
        encodedFilePath == Join(dir, encodedFileName)
        url             == "/plain/" \o t.imgproxy_url \o encodedFilePath
    IN  [t EXCEPT !.imgproxy_url = url,
                  !.is_gif = @ \/ HasSuffix(url, ".gif"),
                  !.is_svg = @ \/ HasSuffix(url, ".svg")]

\* urlResize with the operations the other way round: fill for ">", fit
\* without enlargement for "#"
urlResizeSwapped(width, height, operation) ==
    IF operation = "#" THEN "/rs:fit:" \o width \o ":" \o height \o ":0"
    ELSE IF operation = ">" THEN "/rs:fill:" \o width \o ":" \o height \o ":g:ce"
    ELSE "/rs:fit:" \o width \o ":" \o height

\* the directive of a matched size
urlResize(width, height, operation) ==
    IF operation = ">" THEN "/rs:fit:" \o width \o ":" \o height \o ":0"
    ELSE IF operation = "#" THEN "/rs:fill:" \o width \o ":" \o height \o ":g:ce"
    ELSE "/rs:fit:" \o width \o ":" \o height

\* urlThumb without the test of is_gif
urlThumbNoGif(t, job) ==
    LET match == thumbRegex(job[3])
    IN  IF Len(match) < 1 THEN [t EXCEPT !.failed = TRUE]
        ELSE [t EXCEPT !.thumb_operation = @ \o urlResize(match[2], match[3], match[4])]

\* the thumb branch of the loop
urlThumb(t, job) ==
    LET match == thumbRegex(job[3])
    IN  IF Len(match) < 1 THEN [t EXCEPT !.failed = TRUE]
        ELSE [t EXCEPT !.thumb_operation =
                  @ \o urlResize(match[2], match[3], match[4])
                    \o (IF t.is_gif THEN "/f:gif" ELSE "")]

\* one turn of the loop of generate_imgproxy_url
urlJob(t, job) ==
    IF t.panic \/ t.failed THEN t
    ELSE IF Len(job) < 1 THEN [t EXCEPT !.panic = TRUE]
    ELSE IF job[1] = "f"
         THEN IF Len(job) < 2 THEN [t EXCEPT !.panic = TRUE] ELSE urlFetch(t, job)
    ELSE IF job[1] = "p"
         THEN IF Len(job) < 2 THEN [t EXCEPT !.panic = TRUE]
              ELSE IF job[2] = "thumb"
                   THEN IF Len(job) < 3 THEN [t EXCEPT !.panic = TRUE] ELSE urlThumb(t, job)
              ELSE t
    ELSE t

RECURSIVE urlJobs(_, _)
\* the loop of generate_imgproxy_url over jobs
urlJobs(t, jobs) == IF jobs = <<>> THEN t ELSE urlJobs(urlJob(t, Head(jobs)), Tail(jobs))

\* urlReturn with "/f:svg" before the directives of the thumbs
urlReturnSvgFirst(t) ==
    IF t.failed THEN "Failed to extract job"
    ELSE "/insecure" \o (IF t.is_svg THEN "/f:svg" ELSE "") \o t.thumb_operation
            \o t.imgproxy_url

\* what generate_imgproxy_url returns from the locals t
urlReturn(t) ==
    IF t.failed THEN "Failed to extract job"
    ELSE "/insecure" \o t.thumb_operation
            \o (IF t.is_svg THEN "/f:svg" ELSE "") \o t.imgproxy_url

\* generate_imgproxy_url(url_prefix, jobs): the path, or a panic
generate_imgproxy_url(url_prefix, jobs) ==
    LET t == urlJobs(urlStart(url_prefix), jobs)
    IN  [panic |-> t.panic, url |-> IF t.panic THEN "" ELSE urlReturn(t)]

(***************************************************************************)
(* State                                                                   *)
(***************************************************************************)

VARIABLES
    pc,             \* where the plugin is: in New, between requests, at a step of ServeHTTP
    config,         \* d.config
    sent,           \* what the client built the request of
    req,            \* the request: URL.Path, URL.Query(), Header, RequestURI
    rw,             \* the response written so far
    next,           \* the requests the next handler was called with
    match,          \* the locals of ServeHTTP
    base64String,
    sha,
    jobBytes,
    jobs,
    imgproxy_url,
    gen             \* an activation of generate_imgproxy_url, loop turn by loop turn

vars == <<pc, config, sent, req, rw, next, match, base64String, sha, jobBytes,
          jobs, imgproxy_url, gen>>

locals == <<match, base64String, sha, jobBytes, jobs, imgproxy_url>>

StatusInternalServerError == 500

StatusOK == 200

\* CreateConfig()
CreateConfig == [DragonflySecret |-> "", URLPrefix |-> ""]

\* url.Values.Get(key) and http.Header.Get(key) on a sequence of <<key, value>>:
\* the first value of the key, or ""
Get(pairs, key) ==
    LET at == {i \in 1..Len(pairs) : pairs[i][1] = key}
    IN  IF at = {} THEN "" ELSE pairs[CHOOSE i \in at : \A j \in at : i <= j][2]

\* http.Header.Del(key)
Del(pairs, key) == SelectSeq(pairs, LAMBDA kv : kv[1] # key)

\* http.Error(rw, message, code)
Error(message, code) == [status |-> code, body |-> message \o "\n"]

NoRequest == [Path |-> "", Query |-> <<>>, Header |-> <<>>, RequestURI |-> ""]

NoResponse == [status |-> 0, body |-> ""]

\* what a client builds a request of: a payload, of a job list or not, and a
\* suffix; req is the request as it was sent
NotSent == [payload |-> "", ext |-> "", fromJobs |-> FALSE, jobs |-> <<>>, req |-> NoRequest]

NoGen == [pc |-> "off", url_prefix |-> "", jobs |-> <<>>, i |-> 0,
          t |-> urlStart(""), ret |-> ""]

(***************************************************************************)
(* The requests and the configurations the plugin is run on                *)
(***************************************************************************)

\* the most jobs in the job list of a request
MaxJobs == 2

testSecret == "my-super-secret-key"

otherSecret == "another-secret-key"

testURLPrefix == "https://images.example.com/"

Secrets == {"", testSecret}

URLPrefixes == {"", testURLPrefix}

\* the jobs of the job lists of the requests: fetches, thumbs (one with a
\* size that is none), a job of another tag, processing jobs that are no
\* thumb, and jobs that lack an element
JobPool ==
    { <<"f", "public/images/test.jpg">>, <<"f", "animated.gif">>,
      <<"f", "animated.gifpthumb200x>">>,
      <<"p", "thumb", "400x300#">>, <<"p", "thumb", "200x>">>, <<"p", "thumb", "big">>,
      <<"x", "y">>, <<"p", "rotate", "90">>, <<"p", "rotate">>,
      <<>>, <<"f">>, <<"p", "thumb">> }

\* the sequences of at most n elements of S
SeqsUpTo(S, n) == UNION {[1..k -> S] : k \in 0..n}

JobLists == SeqsUpTo(JobPool, MaxJobs)

\* the message an issuer signs for a job list: "f" and the path of every
\* fetch, "p", the operation and its argument of every processing job that
\* has both
RECURSIVE SignedMessage(_)
SignedMessage(js) ==
    IF js = <<>> THEN ""
    ELSE LET job == Head(js)
         IN  (IF Len(job) >= 2 /\ job[1] = "f" THEN "f" \o job[2]
              ELSE IF Len(job) >= 3 /\ job[1] = "p" THEN "p" \o job[2] \o job[3]
              ELSE "") \o SignedMessage(Tail(js))

\* the payload of a job list, as the test builds it
Payload(js) == EncodeToString(Marshal(js))

\* payloads that are no base64, or base64 that ends like an image suffix
\* without its dot
RawPayloads == {"!not-valid-base64/image", "AAAAAjpg", "QUJDRApng", "W1tdXQ"}

\* payloads of JSON texts that json.Marshal does not write, each with the
\* job list its issuer signs: cut short, of another type, with null in it,
\* with spaces in it
RawTexts ==
    { <<"[[\"f\"", <<>> >>, <<"{\"a\":1}", <<>> >>, <<"[[\"f\",1]]", <<>> >>,
      <<"[\"f\"]", <<>> >>, <<"null", <<>> >>, <<"[null]", <<>> >>,
      <<"[[\"f\",null]]", << <<"f", "">> >> >>,
      <<" [ [ \"f\" , \"a.jpg\" ] ] ", << <<"f", "a.jpg">> >> >> }

\* the image suffixes a client puts after the payload
Extensions == {"", ".gif", ".png", ".jpeg", ".jpg", ".webp", ".avif", ".svg"}

AcceptHeader == << <<"Accept", "image/avif,image/webp,*/*">>, <<"User-Agent", "curl">> >>

\* the query strings that go with a signature v, each with the headers and
\* the suffix of its request
Signed(v) ==
    { [query |-> << <<"sha", v>> >>, header |-> AcceptHeader, ext |-> ".jpg"],
      [query |-> << <<"sha", v>>, <<"convert", "false">> >>, header |-> AcceptHeader, ext |-> ""],
      [query |-> << <<"convert", "true">>, <<"sha", v>> >>, header |-> AcceptHeader, ext |-> ".png"],
      [query |-> << <<"sha", v>>, <<"convert", "false">> >>,
       header |-> << <<"User-Agent", "curl">> >>, ext |-> ".gif"] }

\* the same without a signature that can pass: none, an empty one, a wrong
\* one, and the signature of another secret
Unsigned(js) ==
    { [query |-> << <<"convert", "false">> >>, header |-> AcceptHeader, ext |-> ".jpg"],
      [query |-> << <<"sha", "">> >>, header |-> AcceptHeader, ext |-> ".jpg"],
      [query |-> << <<"sha", "invalidsha">> >>, header |-> AcceptHeader, ext |-> ".jpg"],
      [query |-> << <<"sha", hmacSHA256Hex16(otherSecret, SignedMessage(js))>>,
                    <<"convert", "false">> >>, header |-> AcceptHeader, ext |-> ".webp"] }

RECURSIVE RawQuery(_)
\* the query string of a sequence of <<key, value>>
RawQuery(q) ==
    IF q = <<>> THEN ""
    ELSE q[1][1] \o "=" \o q[1][2] \o (IF Len(q) > 1 THEN "&" ELSE "") \o RawQuery(Tail(q))

\* httptest.NewRequest(http.MethodGet, path + "?" + query, nil) and its headers
NewRequest(path, query, header) ==
    [Path |-> path, Query |-> query, Header |-> header,
     RequestURI |-> path \o (IF query = <<>> THEN "" ELSE "?" \o RawQuery(query))]

\* what a client sends: a payload, a suffix, a query and headers
Sent(payload, fromJobs, js, v) ==
    [payload |-> payload, ext |-> v.ext, fromJobs |-> fromJobs, jobs |-> js,
     req |-> NewRequest("/media/" \o payload \o v.ext, v.query, v.header)]

\* the requests a client sends to a plugin of the given secret
Requests(secret) ==
    UNION { LET payload == Payload(js)
            IN  {Sent(payload, TRUE, js, v) :
                   v \in Signed(hmacSHA256Hex16(secret, SignedMessage(js))) \cup Unsigned(js)} :
            js \in JobLists }
    \cup
    UNION { {Sent(EncodeToString(Bytes(r[1])), FALSE, r[2], v) :
               v \in Signed(hmacSHA256Hex16(secret, SignedMessage(r[2])))} :
            r \in RawTexts }
    \cup
    { Sent(raw, FALSE, <<>>, [query |-> << <<"sha", "invalidsha">> >>,
                                 header |-> AcceptHeader, ext |-> e]) :
        <<raw, e>> \in RawPayloads \X Extensions }
    \cup
    { [NotSent EXCEPT !.req = NewRequest(path, << <<"sha", "invalidsha">> >>, AcceptHeader)] :
        path \in {"/foo/bar", "/media/", "/"} }

(***************************************************************************)
(* New and ServeHTTP                                                       *)
(***************************************************************************)

Init ==
    /\ pc = "new"
    /\ config = CreateConfig
    /\ sent = NotSent
    /\ req = NoRequest
    /\ rw = NoResponse
    /\ next = <<>>
    /\ match = <<>>
    /\ base64String = ""
    /\ sha = ""
    /\ jobBytes = <<>>
    /\ jobs = <<>>
    /\ imgproxy_url = ""
    /\ gen = NoGen

\* New(ctx, next, config, name): an error for an empty secret, else the plugin
New ==
    /\ pc = "new"
    /\ \E secret \in Secrets, prefix \in URLPrefixes :
          /\ config' = [DragonflySecret |-> secret, URLPrefix |-> prefix]
          /\ pc' = IF Len(secret) = 0 THEN "DragonflySecret required" ELSE "idle"
    /\ UNCHANGED <<sent, req, rw, next, locals, gen>>

\* a request arrives: ServeHTTP(rw, req) is called
ServeHTTP ==
    /\ pc = "idle"
    /\ \E r \in Requests(config.DragonflySecret) :
          /\ sent' = r
          /\ req' = r.req
    /\ pc' = "match"
    /\ UNCHANGED <<config, rw, next, locals, gen>>

\* get the base64 string of the path
MatchPath ==
    /\ pc = "match"
    /\ match' = urlRegex(req.Path)
    /\ IF Len(match') < 3
       THEN /\ rw' = Error("Failed to extract base64 string from URL.", StatusInternalServerError)
            /\ pc' = "done"
            /\ UNCHANGED base64String
       ELSE /\ base64String' = match'[2]
            /\ pc' = "sha"
            /\ UNCHANGED rw
    /\ UNCHANGED <<config, sent, req, next, sha, jobBytes, jobs, imgproxy_url, gen>>

\* get sha of the query string
GetSha ==
    /\ pc = "sha"
    /\ sha' = Get(req.Query, "sha")
    /\ IF Len(sha') = 0
       THEN /\ rw' = Error("Failed to get sha from query string.", StatusInternalServerError)
            /\ pc' = "done"
       ELSE /\ pc' = "decode"
            /\ UNCHANGED rw
    /\ UNCHANGED <<config, sent, req, next, match, base64String, jobBytes, jobs,
                   imgproxy_url, gen>>

\* base64 decode the jobs (the text of the error is written without the
\* position it names)
Decode ==
    /\ pc = "decode"
    /\ LET r == DecodeString(base64String)
       IN  IF r.err
           THEN /\ rw' = Error("illegal base64 data", StatusInternalServerError)
                /\ pc' = "done"
                /\ UNCHANGED jobBytes
           ELSE /\ jobBytes' = r.bytes
                /\ pc' = "parse"
                /\ UNCHANGED rw
    /\ UNCHANGED <<config, sent, req, next, match, base64String, sha, jobs,
                   imgproxy_url, gen>>

\* parse the jobs: string(jobBytes) and []byte(job_string) give jobBytes back
Parse ==
    /\ pc = "parse"
    /\ LET r == Unmarshal(jobBytes)
       IN  IF r.err
           THEN /\ rw' = Error("invalid JSON", StatusInternalServerError)
                /\ pc' = "done"
                /\ UNCHANGED jobs
           ELSE /\ jobs' = r.jobs
                /\ pc' = "verify"
                /\ UNCHANGED rw
    /\ UNCHANGED <<config, sent, req, next, match, base64String, sha, jobBytes,
                   imgproxy_url, gen>>

\* compare the calculated signature with sha; a panic of calculateSHA ends
\* ServeHTTP without a response
Verify ==
    /\ pc = "verify"
    /\ LET c == calculateSHA(config.DragonflySecret, jobs)
       IN  IF c.panic
           THEN /\ pc' = "panic"
                /\ UNCHANGED rw
           ELSE IF c.sha # sha
           THEN /\ rw' = Error("SHA validate failed", StatusInternalServerError)
                /\ pc' = "done"
           ELSE /\ pc' = "translate"
                /\ UNCHANGED rw
    /\ UNCHANGED <<config, sent, req, next, locals, gen>>

\* generate the imgproxy url
Translate ==
    /\ pc = "translate"
    /\ LET g == generate_imgproxy_url(config.URLPrefix, jobs)
       IN  IF g.panic
           THEN /\ pc' = "panic"
                /\ UNCHANGED imgproxy_url
           ELSE /\ imgproxy_url' = g.url
                /\ pc' = "accept"
    /\ UNCHANGED <<config, sent, req, rw, next, match, base64String, sha, jobBytes,
                   jobs, gen>>

\* DelAccept without the test of convert
DelAcceptAlways ==
    /\ pc = "accept"
    /\ req' = [req EXCEPT !.Header = Del(@, "Accept")]
    /\ pc' = "rewrite"
    /\ UNCHANGED <<config, sent, rw, next, locals, gen>>

\* convert=false turns the Accept header off
DelAccept ==
    /\ pc = "accept"
    /\ req' = IF Get(req.Query, "convert") = "false"
              THEN [req EXCEPT !.Header = Del(@, "Accept")]
              ELSE req
    /\ pc' = "rewrite"
    /\ UNCHANGED <<config, sent, rw, next, locals, gen>>

\* set the path and the request URI, clean the query string
Rewrite ==
    /\ pc = "rewrite"
    /\ req' = [req EXCEPT !.Path = imgproxy_url, !.Query = <<>>, !.RequestURI = imgproxy_url]
    /\ pc' = "forward"
    /\ UNCHANGED <<config, sent, rw, next, locals, gen>>

\* d.next.ServeHTTP(rw, req); the next handler of the test answers 200
Forward ==
    /\ pc = "forward"
    /\ next' = Append(next, req)
    /\ rw' = [status |-> StatusOK, body |-> ""]
    /\ pc' = "done"
    /\ UNCHANGED <<config, sent, req, locals, gen>>

Next ==
    \/ New
    \/ ServeHTTP
    \/ MatchPath
    \/ GetSha
    \/ Decode
    \/ Parse
    \/ Verify
    \/ Translate
    \/ DelAccept
    \/ Rewrite
    \/ Forward

Spec == Init /\ [][Next]_vars

(***************************************************************************)
(* generate_imgproxy_url, one turn of its loop at a time                   *)
(***************************************************************************)

\* the most jobs in a job list given to generate_imgproxy_url
MaxGenJobs == 3

\* the widths, heights and operations of the sizes of the thumbs
ThumbSizes ==
    { <<"100", "100", "#">>, <<"200", "", ">">>, <<"300", "", "">> }

\* the size <width>x<height><operation>
SizeSpec(size) == size[1] \o "x" \o size[2] \o size[3]

\* the paths of the fetches: in a directory and not, a gif, an svg, and a
\* file name with a space, a plus and a percent sign in it
FetchPaths ==
    { "public/image.jpg", "animated.gif", "icons/vector.svg", "my files/a b+c%20.gif" }

\* the jobs of the job lists: fetches, thumbs, a thumb with a size that is
\* none, a job of another tag, a processing job that is no thumb, a job that
\* lacks an element
GenJobPool ==
    { <<"f", path>> : path \in FetchPaths }
    \cup { <<"p", "thumb", SizeSpec(size)>> : size \in ThumbSizes }
    \cup { <<"p", "thumb", "x100">>, <<"x", "y">>, <<"p", "rotate">>, <<"p", "thumb">> }

GenJobLists == SeqsUpTo(GenJobPool, MaxGenJobs)

\* generate_imgproxy_url(url_prefix, jobs) is called
InitGen ==
    /\ pc = "generate"
    /\ config = CreateConfig
    /\ sent = NotSent
    /\ req = NoRequest
    /\ rw = NoResponse
    /\ next = <<>>
    /\ match = <<>>
    /\ base64String = ""
    /\ sha = ""
    /\ jobBytes = <<>>
    /\ jobs = <<>>
    /\ imgproxy_url = ""
    /\ \E url_prefix \in URLPrefixes, js \in GenJobLists :
          gen = [pc |-> "loop", url_prefix |-> url_prefix, jobs |-> js, i |-> 0,
                 t |-> urlStart(url_prefix), ret |-> ""]

\* the job of the next turn of the loop
GenJob == gen.jobs[gen.i + 1]

\* a turn of the loop on GenJob
GenTurn ==
    LET t == urlJob(gen.t, GenJob)
    IN  /\ gen' = [gen EXCEPT !.t = t,
                              !.i = @ + 1,
                              !.pc = IF t.panic THEN "panic"
                                     ELSE IF t.failed THEN "returned"
                                     ELSE "loop",
                              !.ret = IF t.failed THEN urlReturn(t) ELSE ""]
        /\ UNCHANGED <<pc, config, sent, req, rw, next, locals>>

\* job[0] == "f": fetch image
GenFetch ==
    /\ gen.pc = "loop"
    /\ gen.i < Len(gen.jobs)
    /\ Len(GenJob) >= 2
    /\ GenJob[1] = "f"
    /\ GenTurn

\* job[0] == "p" and job[1] == "thumb": a directive, or the return of
\* "Failed to extract job"
GenThumb ==
    /\ gen.pc = "loop"
    /\ gen.i < Len(gen.jobs)
    /\ Len(GenJob) >= 3
    /\ GenJob[1] = "p"
    /\ GenJob[2] = "thumb"
    /\ GenTurn

\* any other job that has the elements the loop reads
GenSkip ==
    /\ gen.pc = "loop"
    /\ gen.i < Len(gen.jobs)
    /\ Len(GenJob) >= 1
    /\ GenJob[1] # "f"
    /\ GenJob[1] = "p" => Len(GenJob) >= 2 /\ GenJob[2] # "thumb"
    /\ GenTurn

\* a job that lacks an element the loop reads: index out of range
GenPanic ==
    /\ gen.pc = "loop"
    /\ gen.i < Len(gen.jobs)
    /\ \/ Len(GenJob) < 1
       \/ GenJob[1] \in {"f", "p"} /\ Len(GenJob) < 2
       \/ GenJob[1] = "p" /\ Len(GenJob) = 2 /\ GenJob[2] = "thumb"
    /\ GenTurn

\* the return after the loop
GenReturn ==
    /\ gen.pc = "loop"
    /\ gen.i = Len(gen.jobs)
    /\ gen' = [gen EXCEPT !.pc = "returned", !.ret = urlReturn(gen.t)]
    /\ UNCHANGED <<pc, config, sent, req, rw, next, locals>>

NextGen ==
    \/ GenFetch
    \/ GenThumb
    \/ GenSkip
    \/ GenPanic
    \/ GenReturn

SpecGen == InitGen /\ [][NextGen]_vars

(***************************************************************************)
(* generate_imgproxy_url on one fetch                                      *)
(***************************************************************************)

\* the longest file name of a fetch
MaxNameLen == 2

\* the characters of the file names: a letter, a digit, the marks that stay,
\* and the space, the plus and the percent sign
NameChars == {"a", "1", ".", "-", "_", " ", "+", "%"}

RECURSIVE NamesOf(_)
\* the file names of n characters
NamesOf(n) == IF n = 0 THEN {""} ELSE {name \o c : name \in NamesOf(n - 1), c \in NameChars}

FileNames == UNION {NamesOf(n) : n \in 0..MaxNameLen}

\* the directories of the paths: none, clean ones, one with a space in it,
\* and ones that filepath.Clean rewrites
FetchDirs == {"", "public/images/", "my dir/", "../", "a//b/", "a/../"}

\* generate_imgproxy_url(url_prefix, jobs) is called with one fetch
InitFetch ==
    /\ pc = "generate"
    /\ config = CreateConfig
    /\ sent = NotSent
    /\ req = NoRequest
    /\ rw = NoResponse
    /\ next = <<>>
    /\ match = <<>>
    /\ base64String = ""
    /\ sha = ""
    /\ jobBytes = <<>>
    /\ jobs = <<>>
    /\ imgproxy_url = ""
    /\ \E url_prefix \in URLPrefixes, dir \in FetchDirs, name \in FileNames :
          gen = [pc |-> "loop", url_prefix |-> url_prefix,
                 jobs |-> << <<"f", dir \o name>> >>, i |-> 0,
                 t |-> urlStart(url_prefix), ret |-> ""]

NextFetch ==
    \/ GenFetch
    \/ GenReturn

SpecFetch == InitFetch /\ [][NextFetch]_vars

(***************************************************************************)
(* What the properties are stated in                                       *)
(***************************************************************************)

\* ServeHTTP has ended: it returned, or it panicked
Finished == pc \in {"done", "panic"}

\* the next handler was called
Forwarded == next # <<>>

\* the checks of ServeHTTP, on the request as it was sent
SentMatch == urlRegex(sent.req.Path)

SentSha == Get(sent.req.Query, "sha")

SentBytes == DecodeString(SentMatch[2])

SentUnmarshal == Unmarshal(SentBytes.bytes)

SentJobs == SentUnmarshal.jobs

PathMatched == Len(SentMatch) >= 3

ShaPresent == SentSha # ""

PayloadDecoded == PathMatched /\ ~SentBytes.err /\ ~SentUnmarshal.err

ShaEqual ==
    /\ PayloadDecoded
    /\ LET c == calculateSHA(config.DragonflySecret, SentJobs)
       IN  ~c.panic /\ c.sha = SentSha

AllChecksPassed == PathMatched /\ ShaPresent /\ PayloadDecoded /\ ShaEqual

\* the kinds of jobs
FetchJob(job) == Len(job) >= 2 /\ job[1] = "f"

ThumbJob(job) == Len(job) >= 3 /\ job[1] = "p" /\ job[2] = "thumb"

\* a job of another tag, or a processing job of another operation
InertJob(job) ==
    /\ Len(job) >= 1
    /\ \/ job[1] \notin {"f", "p"}
       \/ job[1] = "p" /\ Len(job) >= 2 /\ job[2] # "thumb"

\* a job of an invalid shape: an empty one, a fetch without a path, a thumb
\* without a size
InvalidShape(job) ==
    \/ Len(job) = 0
    \/ Len(job) = 1 /\ job[1] = "f"
    \/ Len(job) = 2 /\ job[1] = "p" /\ job[2] = "thumb"

Some(js, P(_)) == \E i \in 1..Len(js) : P(js[i])

Every(js, P(_)) == \A i \in 1..Len(js) : P(js[i])

IsDigits(s) == \A i \in 1..Len(s) : IsDigit(Char(s, i))

\* size is <digits>x<digits or nothing><nothing, > or #>
MatchesSize(size) ==
    \E i \in 2..Len(size), op \in {"", ">", "#"} :
        /\ Char(size, i) = "x"
        /\ IsDigits(SubSeq(size, 1, i - 1))
        /\ HasSuffix(size, op)
        /\ i <= Len(size) - Len(op)
        /\ IsDigits(SubSeq(size, i + 1, Len(size) - Len(op)))

\* a thumb with a size that is none
BadThumb(job) == ThumbJob(job) /\ ~MatchesSize(job[3])

(***************************************************************************)
(* C1                                                                      *)
(***************************************************************************)

\* C1: the next handler is called only for a request that passed the four
\* checks (the path matches, sha is there, the payload is base64 of JSON,
\* sha is the calculated signature), and a request that did not pass them
\* all ends with a 500 response and without a call of the next handler.
C1_FailClosed ==
    /\ Forwarded => AllChecksPassed
    /\ Finished /\ ~AllChecksPassed => rw.status = StatusInternalServerError /\ ~Forwarded

(***************************************************************************)
(* C2                                                                      *)
(***************************************************************************)

\* C2: a request that passed the four checks and has a thumb with a size
\* that does not match ends with a 500 response, and the next handler is not
\* called with it.
C2_SizeErrorIsTerminal ==
    Finished /\ AllChecksPassed /\ Some(SentJobs, BadThumb)
        => rw.status = StatusInternalServerError /\ ~Forwarded

(***************************************************************************)
(* C3                                                                      *)
(***************************************************************************)

\* C3: a request whose payload is base64 of JSON with a job of an invalid
\* shape ends with a 500 response: ServeHTTP returns, it has not panicked,
\* and there was no translation and no call of the next handler.
C3_InvalidShapeIsDecodeError ==
    Finished /\ PayloadDecoded /\ Some(SentJobs, InvalidShape)
        => /\ pc = "done"
           /\ rw.status = StatusInternalServerError
           /\ imgproxy_url = ""
           /\ ~Forwarded

(***************************************************************************)
(* C4                                                                      *)
(***************************************************************************)

InertOrValid(job) == FetchJob(job) \/ ThumbJob(job) \/ InertJob(job)

NotInert(job) == ~InertJob(job)

\* C4: for a job list of fetches, thumbs and inert jobs (a job of another
\* tag, a "p" job of another operation than "thumb", with an argument or
\* without), the calculation of the signature and the translation end
\* without an error, and the path is the path of the list without the inert
\* jobs.
C4_InertJobsAreNoError ==
    Finished /\ ShaPresent /\ PayloadDecoded /\ Every(SentJobs, InertOrValid)
             /\ Some(SentJobs, InertJob)
        => /\ pc = "done"
           /\ Forwarded =>
                next[1].Path =
                    generate_imgproxy_url(config.URLPrefix, SelectSeq(SentJobs, NotInert)).url

(***************************************************************************)
(* C5                                                                      *)
(***************************************************************************)

\* a job list that the decoder of the specification accepts: every job has
\* a tag, every fetch a path, every thumb a size
WellFormed(js) == ~Some(js, InvalidShape)

RECURSIVE CanonicalMessage(_)
\* the message of a job list: in the order of the list, "f" and the path of
\* every fetch, "p", the operation and the size of every thumb
CanonicalMessage(js) ==
    IF js = <<>> THEN ""
    ELSE LET job == Head(js)
         IN  (IF FetchJob(job) THEN "f" \o job[2]
              ELSE IF ThumbJob(job) THEN "p" \o job[2] \o job[3]
              ELSE "") \o CanonicalMessage(Tail(js))

\* ServeHTTP went past the comparison of the signatures
Verified == pc = "done" /\ rw.body # "SHA validate failed\n"

\* C5: for a well-formed job list J, the request passes the comparison of
\* the signatures exactly when its sha is the first 16 hex characters of the
\* HMAC-SHA256, keyed by the secret, of the message of J.
C5_VerifiedIffSigned ==
    Finished /\ ShaPresent /\ PayloadDecoded /\ WellFormed(SentJobs)
        => (Verified <=> SentSha = hmacSHA256Hex16(config.DragonflySecret, CanonicalMessage(SentJobs)))

(***************************************************************************)
(* C6                                                                      *)
(***************************************************************************)

HasAccept(r) == \E i \in 1..Len(r.Header) : r.Header[i][1] = "Accept"

ConvertFalse == Get(sent.req.Query, "convert") = "false"

\* C6: the request the next handler gets has the translated path of the
\* jobs of the payload and an empty query string; it has an Accept header
\* exactly when the request sent had one and convert was not "false", and
\* then, as without an Accept header at all, its headers are the headers
\* sent; with convert=false the headers are the others, in their order.
C6_ForwardedRequest ==
    Forwarded =>
        /\ Len(next) = 1
        /\ next[1].Path = generate_imgproxy_url(config.URLPrefix, SentJobs).url
        /\ next[1].Query = <<>>
        /\ HasAccept(next[1]) <=> HasAccept(sent.req) /\ ~ConvertFalse
        /\ ~ConvertFalse \/ ~HasAccept(sent.req) => next[1].Header = sent.req.Header
        /\ ConvertFalse =>
              next[1].Header = SelectSeq(sent.req.Header, LAMBDA h : h[1] # "Accept")

\* a request with convert=false and an Accept header went to the next handler
\* without it, on the translated path
C6_Witness ==
    /\ Forwarded
    /\ ConvertFalse
    /\ HasAccept(sent.req)
    /\ ~HasAccept(next[1])
    /\ next[1].Header # <<>>
    /\ HasPrefix(next[1].Path, "/insecure")
    /\ sent.req.Query # <<>>

(***************************************************************************)
(* C7, C8, C9                                                              *)
(***************************************************************************)

\* the translator is at work on gen.jobs
Generating == pc = "generate"

\* the directive of a size <<width, height, operation>>
ClaimedResize(size) ==
    CASE size[3] = ">" -> "/rs:fit:" \o size[1] \o ":" \o size[2] \o ":0"
      [] size[3] = "#" -> "/rs:fill:" \o size[1] \o ":" \o size[2] \o ":g:ce"
      [] size[3] = ""  -> "/rs:fit:" \o size[1] \o ":" \o size[2]

\* the width, height and operation of the size of a thumb
SizeOf(job) == CHOOSE size \in ThumbSizes : SizeSpec(size) = job[3]

\* every thumb of js has a size
SizesValid(js) == \A i \in 1..Len(js) : ThumbJob(js[i]) => MatchesSize(js[i][3])

\* the path of a fetch, its file name encoded
EncodedPath(job) == Join(Split(job[2])[1], customEscape(Split(job[2])[2]))

RECURSIVE EncodedPaths(_)
\* the encoded paths of the fetches of js, one after the other
EncodedPaths(js) ==
    IF js = <<>> THEN ""
    ELSE (IF FetchJob(Head(js)) THEN EncodedPath(Head(js)) ELSE "") \o EncodedPaths(Tail(js))

RECURSIVE Plains(_)
\* "/plain/" for every fetch of js
Plains(js) ==
    IF js = <<>> THEN ""
    ELSE (IF FetchJob(Head(js)) THEN "/plain/" ELSE "") \o Plains(Tail(js))

\* the URL of the fetches of js
FetchURL(prefix, js) == Plains(js) \o prefix \o EncodedPaths(js)

\* a fetch among the first k jobs of js left a URL that ends in ext
FetchedExt(prefix, js, k, ext) ==
    \E j \in 1..k : FetchJob(js[j]) /\ HasSuffix(FetchURL(prefix, SubSeq(js, 1, j)), ext)

\* a fetch of a file name that ends in .gif
GifFetch(job) == FetchJob(job) /\ HasSuffix(Split(job[2])[2], ".gif")

RECURSIVE ClaimedDirectives(_)
\* the directives of the thumbs of js, in the order of js
ClaimedDirectives(js) ==
    IF js = <<>> THEN ""
    ELSE (IF ThumbJob(Head(js)) THEN ClaimedResize(SizeOf(Head(js))) ELSE "")
            \o ClaimedDirectives(Tail(js))

RECURSIVE GifDirectives(_)
\* the directives of the thumbs of js, "/f:gif" after each
GifDirectives(js) ==
    IF js = <<>> THEN ""
    ELSE (IF ThumbJob(Head(js)) THEN ClaimedResize(SizeOf(Head(js))) \o "/f:gif" ELSE "")
            \o GifDirectives(Tail(js))

RECURSIVE Fragment(_, _, _)
\* the directives of the thumbs among the first k jobs of js, "/f:gif"
\* after the directive of a thumb that comes after a fetch of a URL that
\* ends in .gif
Fragment(prefix, js, k) ==
    IF k = 0 THEN ""
    ELSE Fragment(prefix, js, k - 1)
            \o (IF ThumbJob(js[k])
                THEN ClaimedResize(SizeOf(js[k]))
                        \o (IF FetchedExt(prefix, js, k - 1, ".gif") THEN "/f:gif" ELSE "")
                ELSE "")

\* the translator has returned the path of a job list of valid sizes
Returned == Generating /\ gen.pc = "returned" /\ SizesValid(gen.jobs)

\* C7 as it is claimed: the path is "/insecure", the directives of the
\* thumbs in the order of the jobs, "/f:svg" if and only if a fetch set
\* forceSvg, and "/plain/" with the URL prefix and the encoded path of the
\* fetch after it.
C7_ClaimedForm ==
    Returned =>
        gen.ret = "/insecure" \o ClaimedDirectives(gen.jobs)
                     \o (IF FetchedExt(gen.url_prefix, gen.jobs, Len(gen.jobs), ".svg")
                         THEN "/f:svg" ELSE "")
                     \o "/plain/" \o gen.url_prefix \o EncodedPaths(gen.jobs)

\* C7, amended: the path is "/insecure", the directive of every thumb in the
\* order of the jobs, each with "/f:gif" after it when an earlier fetch left
\* a URL that ends in .gif, "/f:svg" if and only if a fetch left a URL that
\* ends in .svg, and the URL of the fetches: the URL prefix and the encoded
\* paths, after one "/plain/" for every fetch.  A list of one fetch has one
\* "/plain/" after all directives, a list of no fetch has none.
C7_Form ==
    Returned =>
        /\ gen.ret = "/insecure" \o Fragment(gen.url_prefix, gen.jobs, Len(gen.jobs))
                        \o (IF FetchedExt(gen.url_prefix, gen.jobs, Len(gen.jobs), ".svg")
                            THEN "/f:svg" ELSE "")
                        \o FetchURL(gen.url_prefix, gen.jobs)
        /\ Len(SelectSeq(gen.jobs, FetchJob)) = 1 =>
              \E directives \in {Fragment(gen.url_prefix, gen.jobs, Len(gen.jobs))},
                 svg \in {"", "/f:svg"} :
                  gen.ret = "/insecure" \o directives \o svg \o "/plain/"
                               \o gen.url_prefix \o EncodedPaths(gen.jobs)
        /\ Len(SelectSeq(gen.jobs, FetchJob)) = 0 => Index(gen.ret, "/plain/") = 0

\* the path of a thumb, a fetch of an svg and a thumb
C7_Witness ==
    /\ Returned
    /\ Len(gen.jobs) = 3
    /\ ThumbJob(gen.jobs[1]) /\ FetchJob(gen.jobs[2]) /\ ThumbJob(gen.jobs[3])
    /\ gen.url_prefix = testURLPrefix
    /\ gen.ret = "/insecure/rs:fill:100:100:g:ce/rs:fit:200::0/f:svg/plain/"
                    \o testURLPrefix \o "icons/vector.svg"

\* C8: while the translator works on a list of valid sizes, without the
\* "/f:gif" in it the directives it has are the directives of the thumbs it
\* has met, one for each and in their order: /rs:fit:<w>:<h>:0 for ">",
\* /rs:fill:<w>:<h>:g:ce for "#", /rs:fit:<w>:<h> for no operation.
C8_ResizeDirectives ==
    Generating /\ ~gen.t.panic /\ SizesValid(SubSeq(gen.jobs, 1, gen.i))
        => ReplaceAll(gen.t.thumb_operation, "/f:gif", "")
              = ClaimedDirectives(SubSeq(gen.jobs, 1, gen.i))

\* the three thumbs 200x>, 100x100# and 300x have left their directives
C8_Witness ==
    /\ Generating
    /\ gen.i = 3
    /\ gen.jobs = << <<"p", "thumb", "200x>">>, <<"p", "thumb", "100x100#">>,
                     <<"p", "thumb", "300x">> >>
    /\ gen.t.thumb_operation = "/rs:fit:200::0/rs:fill:100:100:g:ce/rs:fit:300:"

\* C9 as it is claimed: a list of valid sizes with a thumb and a fetch of a
\* file name that ends in .gif, the one before the other or after it, has
\* "/f:gif" after the directive of every thumb.
C9_ClaimedGif ==
    Returned /\ Some(gen.jobs, GifFetch) /\ Some(gen.jobs, ThumbJob)
        => gen.t.thumb_operation = GifDirectives(gen.jobs)

\* C9, amended: a turn of the loop on a thumb of a valid size appends the
\* directive of the size, and "/f:gif" after it exactly when a fetch before
\* the thumb left a URL that ends in .gif: so it does after a fetch of a
\* file name that ends in .gif, and so it does not before every fetch.
C9_GifAfterFetch ==
    [][GenThumb /\ MatchesSize(GenJob[3]) =>
          LET before   == SubSeq(gen.jobs, 1, gen.i)
              appended == ClaimedResize(SizeOf(GenJob))
          IN  /\ gen'.t.thumb_operation =
                    gen.t.thumb_operation \o appended
                       \o (IF FetchedExt(gen.url_prefix, gen.jobs, gen.i, ".gif")
                           THEN "/f:gif" ELSE "")
              /\ Some(before, GifFetch) =>
                    gen'.t.thumb_operation = gen.t.thumb_operation \o appended \o "/f:gif"
              /\ ~Some(before, FetchJob) =>
                    gen'.t.thumb_operation = gen.t.thumb_operation \o appended]_vars

\* a thumb before the fetch of a gif is without "/f:gif", the thumb after it
\* has it
C9_Witness ==
    /\ Returned
    /\ gen.jobs = << <<"p", "thumb", "100x100#">>, <<"f", "animated.gif">>,
                     <<"p", "thumb", "200x>">> >>
    /\ gen.t.thumb_operation = "/rs:fill:100:100:g:ce/rs:fit:200::0/f:gif"

(***************************************************************************)
(* C11                                                                     *)
(***************************************************************************)

\* the directory of a path: what is before the file name, the last slash
\* with it
DirPart(path) == SubSeq(path, 1, LastIndex(path, "/"))

\* the file name of a path: what is after the last slash
FilePart(path) == From(path, LastIndex(path, "/") + 1)

\* a character as the escaping leaves it
ClaimedEscapeChar(c) ==
    CASE c = " " -> "%20"
      [] c = "+" -> "%2B"
      [] c = "%" -> "%25"
      [] OTHER   -> c

RECURSIVE ClaimedEscape(_)
\* a file name of letters, digits, ".", "-", "_", spaces, "+" and "%", escaped
ClaimedEscape(name) ==
    IF name = "" THEN ""
    ELSE ClaimedEscapeChar(Char(name, 1)) \o ClaimedEscape(From(name, 2))

\* the translator has done the one fetch of its job list
Fetched == Generating /\ Len(gen.jobs) = 1 /\ FetchJob(gen.jobs[1]) /\ gen.i = 1

\* C11: after a fetch of a path, the URL is "/plain/", the URL prefix, the
\* directory of the path as it is and the file name escaped: a space is
\* "%20", "+" is "%2B", "%" is "%25", and letters, digits, ".", "-" and "_"
\* stay; the escaping of an escaped file name with "%" or a space in it is
\* another text.
C11_AppendedText ==
    Fetched =>
        LET path == gen.jobs[1][2]
            name == FilePart(path)
        IN  /\ gen.t.imgproxy_url =
                  "/plain/" \o gen.url_prefix \o DirPart(path) \o ClaimedEscape(name)
            /\ Index(name, "%") > 0 \/ Index(name, " ") > 0
                  => customEscape(customEscape(name)) # customEscape(name)

\* C11 without the directory: the file name at the end of the URL is the
\* file name escaped, when the file name is one that filepath.Join keeps (not
\* empty, not "." and not "..").
C11_EscapedName ==
    Fetched /\ FilePart(gen.jobs[1][2]) \notin {"", ".", ".."}
        => LET name == FilePart(gen.jobs[1][2])
           IN  /\ HasSuffix(gen.t.imgproxy_url, ClaimedEscape(name))
               /\ customEscape(name) = ClaimedEscape(name)
               /\ Index(name, "%") > 0 \/ Index(name, " ") > 0
                     => customEscape(customEscape(name)) # customEscape(name)

(***************************************************************************)
(* C12                                                                     *)
(***************************************************************************)

\* C12: right after a turn of the loop on a fetch, is_gif is true exactly
\* when the file name of this fetch ends in .gif, and is_svg exactly when
\* it ends in .svg: the flags are the flags of the last fetch.
C12_FlagsOfLastFetch ==
    [][GenFetch =>
          /\ gen'.t.is_gif <=> HasSuffix(FilePart(GenJob[2]), ".gif")
          /\ gen'.t.is_svg <=> HasSuffix(FilePart(GenJob[2]), ".svg")]_vars

(***************************************************************************)
(* C13                                                                     *)
(***************************************************************************)

\* the steps of ServeHTTP in their order: the match of the path, the test
\* of sha, the base64 decoding, the parsing of the JSON, the signature, the
\* translation, the rewriting of the request (the Accept header, then the
\* path and the query string) and the call of the next handler
StepOrder ==
    <<"match", "sha", "decode", "parse", "verify", "translate", "accept", "rewrite",
      "forward", "done">>

StepOf(p) == CHOOSE k \in 1..Len(StepOrder) : StepOrder[k] = p

InServeHTTP == \E k \in 1..(Len(StepOrder) - 1) : StepOrder[k] = pc

\* a step of ServeHTTP goes to the next step of the order, or it ends
\* ServeHTTP; the request and the translated path change only in the steps
\* after a signature check that passed
StepInOrder ==
    InServeHTTP =>
        /\ pc' \in {StepOrder[StepOf(pc) + 1], "done", "panic"}
        /\ req' # req \/ imgproxy_url' # imgproxy_url
              => pc \in {"translate", "accept", "rewrite"} /\ ShaEqual
        /\ next' # next => pc = "forward"

\* C13: the steps of ServeHTTP are in the fixed order, the translation and
\* every change of the request come after a signature check that passed, and
\* a request that fails a check gets to its error response with the request
\* as it was sent.
C13_LinearOrder ==
    /\ [][StepInOrder]_vars
    /\ [](Finished /\ ~AllChecksPassed
            => /\ rw.status = StatusInternalServerError
               /\ req = sent.req
               /\ imgproxy_url = "")

\* C13 without the error response: the steps are in the fixed order, the
\* translation and every change of the request come after a signature check
\* that passed, and a request that fails a check, or on which calculateSHA
\* panics, ends as it was sent; an error response goes with an unchanged
\* request.
C13_OrderOnly ==
    /\ [][StepInOrder]_vars
    /\ [](Finished /\ ~AllChecksPassed => req = sent.req /\ imgproxy_url = "")
    /\ [](rw.status = StatusInternalServerError => req = sent.req /\ ~Forwarded)

(***************************************************************************)
(* C14                                                                     *)
(***************************************************************************)

\* the signature of the secret of the plugin for a job list
Issued(js) == hmacSHA256Hex16(config.DragonflySecret, CanonicalMessage(js))

\* C14: the path that goes to the next handler is the translated path of
\* every well-formed job list that has the signature of the request: two
\* job lists of one message have one path, and the signature of a job list
\* gets no other path forwarded than the path of that job list.
C14_SignatureBindsPath ==
    Forwarded =>
        \A js \in JobLists :
            WellFormed(js) /\ Issued(js) = SentSha
                => generate_imgproxy_url(config.URLPrefix, js).url = next[1].Path

(***************************************************************************)
(* C10                                                                     *)
(***************************************************************************)

\* s is base64url text
IsBase64URL(s) == \A i \in 1..Len(s) : Char(s, i) \in DOMAIN decodeMap

\* the path was matched
Matched == pc \in {"sha", "decode", "parse", "verify", "translate", "accept", "rewrite",
                   "forward", "done", "panic"}

\* C10: for a path /media/P or /media/P.E, of a base64url payload P that is
\* not empty and a suffix E of the list, the base64 string the match gives is
\* P.
C10_TokenIsPayload ==
    Matched /\ sent.payload # "" /\ IsBase64URL(sent.payload) /\ sent.ext \in Extensions
        => Len(match) >= 3 /\ base64String = sent.payload

=============================================================================
